---- MODULE Spec2Model ----
(***************************************************************************)
(* Model of importpkg.py: the streaming decoder of a Debian package        *)
(* (process_package), its hash-verifying wrapper                           *)
(* (process_package_with_hash) and the per-file hashing (get_hashes).      *)
(*                                                                         *)
(* The input is a forward-only byte stream.  It is revealed to the model   *)
(* piece by piece, at the moment the code reads it: the ar member headers  *)
(* by read_entry, the tar elements by the tar iterators, and what is left  *)
(* of the stream once the data tar has ended (`residual`).                 *)
(***************************************************************************)
EXTENDS Integers, Sequences, FiniteSets, TLC

\* ------------------------------------------------------------------ bounds
MaxMembers == 3    \* ar members that read_entry returns in one run
MaxEntries == 2    \* elements that one tar iterator yields
MaxResidual == 1   \* ar members that follow the data member
HashMod == 3       \* number of distinct values of the modelled outer digest
MaxLen == 2        \* bytes of a file of the data tar
MaxBlock == 2      \* bytes one read of hash_file returns
MaxFiles == 2      \* elements of the data tar that get_hashes handles
MaxClauses == 2    \* clauses of a Depends field
MaxAlts == 2       \* alternatives of one clause

\* ------------------------------------------------------------ input values
ControlName == "control.tar.gz"
DataNames == {"data.tar.gz", "data.tar.bz2", "data.tar.xz", "data.tar"}
OtherNames == {"debian-binary"}
ArNames == {ControlName} \cup DataNames \cup OtherNames

\* Code of an ar member in the byte stream (what the outer digest sees).
NameCode(n) ==
    CASE n = "control.tar.gz" -> 0
      [] n = "data.tar.gz" -> 1
      [] n = "data.tar.bz2" -> 2
      [] n = "data.tar.xz" -> 3
      [] n = "data.tar" -> 4
      [] OTHER -> 5

\* Contents of a ./control file: the fields that are present, the tokens of
\* the Source field and the clauses of the Depends field (a clause is the
\* sequence of its alternatives).
ControlFiles ==
    { [fields |-> {"package", "version", "architecture"},
       source |-> <<>>, depends |-> <<>>],
      [fields |-> {"package", "version", "architecture", "source", "depends"},
       source |-> <<"src", "(1.0)">>,
       depends |-> << <<"libc6">>, <<"awk", "mawk">> >>],
      [fields |-> {"package", "architecture"},
       source |-> <<>>, depends |-> <<>>] }

NoControl == [fields |-> {}, source |-> <<>>, depends |-> <<>>]

\* Elements of the control tar: ./control with some contents, or another file.
ControlElems ==
    { [name |-> "./control", contents |-> c] : c \in ControlFiles }
    \cup { [name |-> "./md5sums", contents |-> NoControl] }

\* Elements of the data tar.  utf8 tells whether the name decodes as UTF-8,
\* data is the sequence of the file's bytes.
DataElems ==
    { [name |-> "./usr", isreg |-> FALSE, utf8 |-> TRUE, data |-> <<>>],
      [name |-> "./usr/empty", isreg |-> TRUE, utf8 |-> TRUE, data |-> <<>>],
      [name |-> "./usr/hello", isreg |-> TRUE, utf8 |-> TRUE,
       data |-> <<"h", "nl">>],
      [name |-> "./usr/hello.gz", isreg |-> TRUE, utf8 |-> TRUE,
       data |-> <<"gz", "h">>],
      [name |-> "./usr/caf\\xe9", isreg |-> TRUE, utf8 |-> FALSE,
       data |-> <<"h">>] }

\* No element yet.
NoElem == [name |-> "", isreg |-> FALSE, utf8 |-> TRUE, data |-> <<>>]

ElemCode(e) ==
    CASE e.name = "./usr" -> 0
      [] e.name = "./usr/empty" -> 1
      [] e.name = "./usr/hello" -> 2
      [] e.name = "./usr/hello.gz" -> 4
      [] e.name = "./control" -> 1 + Cardinality(e.contents.fields)
      [] OTHER -> 3

\* The expected digest is absent when process_package runs unwrapped.
NoHash == 0 - 1

VARIABLES
    pc,         \* position of the run
    state,      \* process_package: state
    name,       \* process_package: name (last result of read_entry)
    nread,      \* number of ar members read_entry has returned
    nelem,      \* number of elements the open tar iterator has yielded
    yielded,    \* records process_package has yielded
    out,        \* records the run has emitted to its caller
    err,        \* error the run has raised, or "none"
    warnings,   \* number of warnings printed
    sha256hash, \* expected outer digest, or NoHash
    digest,     \* HashedStream: digest of the bytes read so far
    inputsha,   \* digest of the bytes of the input revealed so far
    residual,   \* ar members of the input not read when the data tar ended
    data_eof,   \* the iterator of the data tar is exhausted
    ar_eof,     \* read_entry has found the end of the ar archive
    elem,       \* get_hashes: elem (last element the data tar has yielded)
    \* get_hashes and MultiHash, step by step
    hpc,        \* position in get_hashes
    hcount,     \* elements the tar has yielded to get_hashes
    helem,      \* get_hashes: elem
    hpos,       \* bytes of the element read by hash_file
    hblock,     \* MultiHash.update: data
    hidx,       \* MultiHash.update: index of the next hasher of the loop
    hnblocks,   \* number of update calls on the MultiHash of the element
    hfed,       \* number of bytes passed to update of the MultiHash
    hashers,    \* MultiHash.hashes
    hyield,     \* the tuple get_hashes yields
    hpoisoned,  \* labels of the hashers poisoned by an earlier element
    \* process_control on its own
    cpc,        \* position in process_control
    control,    \* process_control: control
    cresult     \* the dict process_control returns

mainvars == <<pc, state, name, nread, nelem, yielded, out, err, warnings,
              sha256hash, digest, inputsha, residual, data_eof, ar_eof, elem>>

hashvars == <<hpc, hcount, helem, hpos, hblock, hidx, hnblocks, hfed,
              hashers, hyield, hpoisoned>>

ctlvars == <<cpc, control, cresult>>

vars == <<mainvars, hashvars, ctlvars>>


\* --------------------------------------------------------------- hashing
\* HashedStream over hashlib.sha256: the digest after one more chunk.
Update(h, c) == (h * 2 + c + 1) % HashMod

RECURSIVE UpdateAll(_, _)
UpdateAll(h, members) ==
    IF members = <<>> THEN h
    ELSE UpdateAll(Update(h, NameCode(Head(members))), Tail(members))

\* hashlib.sha512: hexdigest of a byte sequence (distinct inputs give
\* distinct digests).  The empty sequence <<>> stands for the string "".
Sha512(bytes) == <<"sha512">> \o bytes

boring_sha512_hashes == {Sha512(<<>>), Sha512(<<"nl">>)}

HashBlacklist(hexdigest, blacklist) ==
    IF hexdigest \in blacklist THEN <<>> ELSE hexdigest

\* Bytes of a file: ordinary data, a newline, the gzip header, the PNG
\* signature, the GIF signature with its screen descriptor, and a piece that
\* the image formats skip (an ancillary PNG chunk, a GIF extension).
Bytes == {"h", "nl", "gz", "png", "gif", "tx"}

\* A hasher: its label, the wrapped inner hasher (kind) and its state (st),
\* the bytes fed to its sha512 so far (acc), the wrappers around it, and the
\* number of update calls it received (recv).
NewHasher(nm, kind, suppressing, blacklisted) ==
    [name |-> nm, kind |-> kind, suppressing |-> suppressing,
     blacklisted |-> blacklisted, st |-> "init", acc |-> <<>>,
     poisoned |-> FALSE, recv |-> 0]

InnerError == [st |-> "error", out |-> <<>>]

\* One byte through the inner hasher: its next state and what it feeds to
\* its sha512.  hashlib.sha512 takes every byte; DecompressedHash over
\* GzipDecompressor wants the gzip header, then feeds the payload; PNGHash
\* wants the signature, then feeds the pixel-relevant chunks and skips the
\* ancillary ones; GIFHash wants the signature, feeds the screen descriptor
\* and the image data and skips the extensions.
InnerUpdate(kind, st, b) ==
    CASE kind = "raw" -> [st |-> "data", out |-> <<b>>]
      [] kind = "gzip" ->
            IF st = "init"
            THEN IF b = "gz" THEN [st |-> "body", out |-> <<>>] ELSE InnerError
            ELSE IF b \in {"h", "nl"} THEN [st |-> "body", out |-> <<b>>]
                 ELSE InnerError
      [] kind = "png" ->
            IF st = "init"
            THEN IF b = "png" THEN [st |-> "sig", out |-> <<>>] ELSE InnerError
            ELSE IF b = "h" THEN [st |-> "chunks", out |-> <<b>>]
                 ELSE IF b = "tx" THEN [st |-> "chunks", out |-> <<>>]
                 ELSE InnerError
      [] OTHER ->
            IF st = "init"
            THEN IF b = "gif" THEN [st |-> "blocks", out |-> <<b>>]
                 ELSE InnerError
            ELSE IF b = "h" THEN [st |-> "blocks", out |-> <<b>>]
                 ELSE IF b = "tx" THEN [st |-> "blocks", out |-> <<>>]
                 ELSE InnerError

\* The image hashers fail at hexdigest on a truncated image.
InnerFinalFails(kind, st) ==
    \/ kind = "png" /\ st \in {"init", "sig"}
    \/ kind = "gif" /\ st = "init"

\* update of one byte: SuppressingHash ignores the data once poisoned and
\* becomes poisoned by an expected error; without it the error is raised.
UpdateByte(h, b) ==
    IF h.poisoned \/ h.st = "raised" THEN h
    ELSE LET r == InnerUpdate(h.kind, h.st, b)
         IN  IF r.st = "error"
             THEN IF h.suppressing THEN [h EXCEPT !.poisoned = TRUE]
                  ELSE [h EXCEPT !.st = "raised"]
             ELSE [h EXCEPT !.st = r.st, !.acc = @ \o r.out]

RECURSIVE UpdateBytes(_, _)
UpdateBytes(h, block) ==
    IF block = <<>> THEN h
    ELSE UpdateBytes(UpdateByte(h, Head(block)), Tail(block))

\* hasher.update(data)
HasherUpdate(h, block) ==
    [UpdateBytes(h, block) EXCEPT !.recv = @ + 1]

\* hashobj.hexdigest(): "" (<<>>) from a poisoned SuppressingHash or from a
\* suppressed error of the finalization, "" from HashBlacklist for a boring
\* digest.
Hexdigest(h) ==
    IF h.poisoned \/ (h.suppressing /\ InnerFinalFails(h.kind, h.st)) THEN <<>>
    ELSE IF h.blacklisted
         THEN HashBlacklist(Sha512(h.acc), boring_sha512_hashes)
         ELSE Sha512(h.acc)

sha512_nontrivial == NewHasher("sha512", "raw", FALSE, TRUE)

gziphash_unsuppressed == NewHasher("gzip_sha512", "gzip", FALSE, TRUE)

gziphash == NewHasher("gzip_sha512", "gzip", TRUE, TRUE)

pnghash == NewHasher("png_sha512", "png", TRUE, FALSE)

gifhash == NewHasher("gif_sha512", "gif", TRUE, FALSE)

\* MultiHash(sha512_nontrivial(), gziphash(), pnghash(), gifhash())
NewMultiHash == <<sha512_nontrivial, gziphash, pnghash, gifhash>>

\* MultiHash.update: the hashers from index i on, in list order; an error a
\* hasher raises ends the loop.
RECURSIVE MultiHashUpdate(_, _, _)
MultiHashUpdate(hs, i, block) ==
    IF i > Len(hs) THEN hs
    ELSE LET h == HasherUpdate(hs[i], block)
         IN  IF h.st = "raised" THEN [hs EXCEPT ![i] = h]
             ELSE MultiHashUpdate([hs EXCEPT ![i] = h], i + 1, block)

\* hash_file: the file is read block by block, each block goes to update.
RECURSIVE hash_file(_, _)
hash_file(hs, bytes) ==
    IF bytes = <<>> THEN hs
    ELSE hash_file(MultiHashUpdate(hs, 1, <<Head(bytes)>>), Tail(bytes))

\* get_hashes: the mapping of the labels with a non-empty digest.
Digests(hs) ==
    { p \in { <<hs[i].name, Hexdigest(hs[i])>> : i \in DOMAIN hs } :
        p[2] # <<>> }

\* get_hashes, for one regular element.
Hashes(bytes) == Digests(hash_file(NewMultiHash, bytes))

\* ---------------------------------------------------------------- records
NoMeta == [package |-> "", source |-> "", version |-> "", architecture |-> "",
           depends |-> {}]

CommitRecord ==
    [kind |-> "commit", name |-> "", size |-> 0, hashes |-> {}, meta |-> NoMeta]

FileRecord(n, s, h) ==
    [kind |-> "file", name |-> n, size |-> s, hashes |-> h, meta |-> NoMeta]

MetadataRecord(m) ==
    [kind |-> "metadata", name |-> "", size |-> 0, hashes |-> {}, meta |-> m]

\* process_control raises: a required field is missing (KeyError), or the
\* Source field has no token (IndexError).
ControlRaises(c) ==
    \/ ~ ({"package", "version", "architecture"} \subseteq c.fields)
    \/ "source" \in c.fields /\ c.source = <<>>

process_control_first(c) ==
    [package |-> "pkg",
     source |-> IF "source" \in c.fields THEN Head(c.source) ELSE "pkg",
     version |-> "1.0",
     architecture |-> "all",
     depends |-> { c.depends[i][1] : i \in DOMAIN c.depends }]

process_control(c) ==
    [package |-> "pkg",
     source |-> IF "source" \in c.fields THEN Head(c.source) ELSE "pkg",
     version |-> "1.0",
     architecture |-> "all",
     depends |-> { c.depends[i][1] :
                     i \in { j \in DOMAIN c.depends : Len(c.depends[j]) = 1 } }]

Count(s, k) == Cardinality({ i \in DOMAIN s : s[i].kind = k })

\* Elements of the data tar as get_hashes sees them: size is the size of
\* the tar header, data the bytes that extractfile has delivered so far.
Blocks(k) == [1 .. k -> Bytes]

Files == { [isreg |-> r, size |-> n, data |-> <<>>] :
             r \in BOOLEAN, n \in 0 .. MaxLen }

NoFile == [isreg |-> FALSE, size |-> 0, data |-> <<>>]

NoYield == [size |-> 0, hashes |-> {}]

\* ------------------------------------------------------------------- Init
\* State of process_package before its first statement.
MainIdle ==
    /\ pc = "magic"
    /\ state = "start"
    /\ name = ""
    /\ nread = 0
    /\ nelem = 0
    /\ yielded = <<>>
    /\ out = <<>>
    /\ err = "none"
    /\ warnings = 0
    /\ sha256hash = NoHash
    /\ digest = 0
    /\ inputsha = 0
    /\ residual = <<>>
    /\ data_eof = FALSE
    /\ ar_eof = FALSE
    /\ elem = NoElem

\* State of get_hashes when it is not running.
HashIdle ==
    /\ hpc = "off"
    /\ hcount = 0
    /\ helem = NoFile
    /\ hpos = 0
    /\ hblock = <<>>
    /\ hidx = 1
    /\ hnblocks = 0
    /\ hfed = 0
    /\ hashers = NewMultiHash
    /\ hyield = NoYield
    /\ hpoisoned = {}

\* State of process_control when it is not running.
ControlIdle ==
    /\ cpc = "off"
    /\ control = NoControl
    /\ cresult = NoMeta

Init ==
    /\ pc = "magic"
    /\ state = "start"
    /\ name = ""
    /\ nread = 0
    /\ nelem = 0
    /\ yielded = <<>>
    /\ out = <<>>
    /\ err = "none"
    /\ warnings = 0
    /\ sha256hash \in {NoHash} \cup (0 .. HashMod - 1)
    /\ digest = 0
    /\ inputsha = 0
    /\ residual = <<>>
    /\ data_eof = FALSE
    /\ ar_eof = FALSE
    /\ elem = NoElem
    /\ HashIdle
    /\ ControlIdle

\* ---------------------------------------------------------------- helpers
\* One read from the input: HashedStream.read updates the digest when the
\* run is wrapped by process_package_with_hash.
Read(c) ==
    /\ digest' = IF sha256hash = NoHash THEN digest ELSE Update(digest, c)
    /\ inputsha' = Update(inputsha, c)

\* A record yielded by process_package reaches the caller directly, or
\* through the loop of process_package_with_hash (yield elem).
Yield(rec) ==
    /\ yielded' = Append(yielded, rec)
    /\ out' = Append(out, rec)

Raise(e) ==
    /\ err' = e
    /\ pc' = "error"

\* ---------------------------------------------------------- process_package
\* af.read_magic()
ReadMagic ==
    /\ pc = "magic"
    /\ Read(0)
    /\ pc' = "loop"
    /\ UNCHANGED <<state, name, nread, nelem, yielded, out, err, warnings,
                   sha256hash, residual, data_eof, ar_eof>>
    /\ UNCHANGED elem
    /\ UNCHANGED <<hashvars, ctlvars>>

ReadMagicFails ==
    /\ pc = "magic"
    /\ Read(1)
    /\ Raise("ar format error")
    /\ UNCHANGED <<state, name, nread, nelem, yielded, out, warnings,
                   sha256hash, residual, data_eof, ar_eof>>
    /\ UNCHANGED elem
    /\ UNCHANGED <<hashvars, ctlvars>>

UnexpectedControl_never(st) == FALSE

\* if state != "start": raise ValueError("unexpected control.tar.gz")
UnexpectedControl(st) == st # "start"

MissingControlFile_never(st) == FALSE

\* if state != "control_file": raise ValueError("missing control file")
MissingControlFile(st) == st # "control_file"

ReadEntry_rejects(n) ==
    /\ pc = "loop"
    /\ nread < MaxMembers
    /\ Read(NameCode(n))
    /\ name' = n
    /\ nread' = nread + 1
    /\ nelem' = 0
    /\ IF n = ControlName
       THEN IF UnexpectedControl(state)
            THEN Raise("unexpected control.tar.gz") /\ state' = state
            ELSE state' = "control" /\ pc' = "control_open" /\ err' = err
       ELSE IF n \in DataNames
            THEN pc' = "data_open" /\ UNCHANGED <<state, err>>
            ELSE Raise("unexpected member") /\ state' = state
    /\ UNCHANGED <<yielded, out, warnings, sha256hash, residual, data_eof, ar_eof>>
    /\ UNCHANGED elem
    /\ UNCHANGED <<hashvars, ctlvars>>

\* name = af.read_entry(), and the branch on the name up to the opening of
\* the member's tar stream.
ReadEntry(n) ==
    /\ pc = "loop"
    /\ nread < MaxMembers
    /\ Read(NameCode(n))
    /\ name' = n
    /\ nread' = nread + 1
    /\ nelem' = 0
    /\ IF n = ControlName
       THEN IF UnexpectedControl(state)
            THEN Raise("unexpected control.tar.gz") /\ state' = state
            ELSE state' = "control" /\ pc' = "control_open" /\ err' = err
       ELSE IF n \in DataNames
            THEN pc' = "data_open" /\ UNCHANGED <<state, err>>
            ELSE pc' = "loop" /\ UNCHANGED <<state, err>>
    /\ UNCHANGED <<yielded, out, warnings, sha256hash, residual, data_eof, ar_eof>>
    /\ UNCHANGED elem
    /\ UNCHANGED <<hashvars, ctlvars>>

\* except EOFError: raise ValueError("data.tar not found")
ReadEntryEOF_break ==
    /\ pc = "loop"
    /\ ar_eof' = TRUE
    /\ pc' = "done"
    /\ UNCHANGED <<state, name, nread, nelem, yielded, out, err, warnings,
                   sha256hash, digest, inputsha, residual, data_eof>>
    /\ UNCHANGED elem
    /\ UNCHANGED <<hashvars, ctlvars>>

ReadEntryEOF ==
    /\ pc = "loop"
    /\ ar_eof' = TRUE
    /\ Raise("data.tar not found")
    /\ UNCHANGED <<state, name, nread, nelem, yielded, out, warnings,
                   sha256hash, digest, inputsha, residual, data_eof>>
    /\ UNCHANGED elem
    /\ UNCHANGED <<hashvars, ctlvars>>

\* read_entry fails on a truncated or malformed member header.
ReadEntryFails ==
    /\ pc = "loop"
    /\ Read(5)
    /\ Raise("ar format error")
    /\ UNCHANGED <<state, name, nread, nelem, yielded, out, warnings,
                   sha256hash, residual, data_eof, ar_eof>>
    /\ UNCHANGED elem
    /\ UNCHANGED <<hashvars, ctlvars>>

\* tf = tarfile.open(fileobj=af, mode="r|gz") for control.tar.gz
OpenControl ==
    /\ pc = "control_open"
    /\ pc' = "control_iter"
    /\ UNCHANGED <<state, name, nread, nelem, yielded, out, err, warnings,
                   sha256hash, digest, inputsha, residual, data_eof, ar_eof>>
    /\ UNCHANGED elem
    /\ UNCHANGED <<hashvars, ctlvars>>

OpenControlFails ==
    /\ pc = "control_open"
    /\ Raise("tar read error")
    /\ UNCHANGED <<state, name, nread, nelem, yielded, out, warnings,
                   sha256hash, digest, inputsha, residual, data_eof, ar_eof>>
    /\ UNCHANGED elem
    /\ UNCHANGED <<hashvars, ctlvars>>

\* for elem in tf: one element of the control tar
ControlElem(e) ==
    /\ pc = "control_iter"
    /\ nelem < MaxEntries
    /\ Read(ElemCode(e))
    /\ nelem' = nelem + 1
    /\ IF e.name # "./control"
       THEN UNCHANGED <<pc, state, err, yielded, out>>
       ELSE IF state # "control"
            THEN Raise("duplicate control file")
                 /\ UNCHANGED <<state, yielded, out>>
            ELSE /\ state' = "control_file"
                 /\ IF ControlRaises(e.contents)
                    THEN Raise("control parse error")
                         /\ UNCHANGED <<yielded, out>>
                    ELSE /\ Yield(MetadataRecord(process_control(e.contents)))
                         /\ pc' = "loop"
                         /\ err' = err
    /\ UNCHANGED <<name, nread, warnings, sha256hash, residual, data_eof, ar_eof>>
    /\ UNCHANGED elem
    /\ UNCHANGED <<hashvars, ctlvars>>

\* the control tar ends without a ./control element
ControlEnd ==
    /\ pc = "control_iter"
    /\ pc' = "loop"
    /\ UNCHANGED <<state, name, nread, nelem, yielded, out, err, warnings,
                   sha256hash, digest, inputsha, residual, data_eof, ar_eof>>
    /\ UNCHANGED elem
    /\ UNCHANGED <<hashvars, ctlvars>>

\* the control tar is truncated or its gzip stream is malformed
ControlFails ==
    /\ pc = "control_iter"
    /\ Raise("tar read error")
    /\ UNCHANGED <<state, name, nread, nelem, yielded, out, warnings,
                   sha256hash, digest, inputsha, residual, data_eof, ar_eof>>
    /\ UNCHANGED elem
    /\ UNCHANGED <<hashvars, ctlvars>>

\* tf = tarfile.open(...) for a data member, then the check of the state
OpenData ==
    /\ pc = "data_open"
    /\ IF MissingControlFile(state)
       THEN Raise("missing control file")
       ELSE pc' = "data_iter" /\ err' = err
    /\ UNCHANGED <<state, name, nread, nelem, yielded, out, warnings,
                   sha256hash, digest, inputsha, residual, data_eof, ar_eof>>
    /\ UNCHANGED elem
    /\ UNCHANGED <<hashvars, ctlvars>>

\* tarfile.open reads the first header of the stream and raises when the
\* stream is empty, is not a tar stream or does not decompress
OpenDataFails ==
    /\ pc = "data_open"
    /\ Raise("tar read error")
    /\ UNCHANGED <<state, name, nread, nelem, yielded, out, warnings,
                   sha256hash, digest, inputsha, residual, data_eof, ar_eof>>
    /\ UNCHANGED elem
    /\ UNCHANGED <<hashvars, ctlvars>>

DataElem_nonreg(e) ==
    /\ pc = "data_iter"
    /\ nelem < MaxEntries
    /\ Read(ElemCode(e))
    /\ nelem' = nelem + 1
    /\ IF FALSE
       THEN UNCHANGED <<yielded, out, warnings>>
       ELSE IF ~ e.utf8
            THEN warnings' = warnings + 1 /\ UNCHANGED <<yielded, out>>
            ELSE /\ Yield(FileRecord(e.name, Len(e.data), Hashes(e.data)))
                 /\ warnings' = warnings
    /\ UNCHANGED <<pc, state, name, nread, err, sha256hash, residual, data_eof, ar_eof>>
    /\ elem' = e
    /\ UNCHANGED <<hashvars, ctlvars>>

DataElem_raises(e) ==
    /\ pc = "data_iter"
    /\ nelem < MaxEntries
    /\ Read(ElemCode(e))
    /\ nelem' = nelem + 1
    /\ IF ~ e.isreg
       THEN UNCHANGED <<yielded, out, warnings>>
       ELSE IF ~ e.utf8
            THEN UNCHANGED <<warnings, yielded, out>>
            ELSE /\ Yield(FileRecord(e.name, Len(e.data), Hashes(e.data)))
                 /\ warnings' = warnings
    /\ IF e.isreg /\ ~ e.utf8
       THEN Raise("UnicodeDecodeError")
       ELSE UNCHANGED <<pc, err>>
    /\ UNCHANGED <<state, name, nread, sha256hash, residual, data_eof, ar_eof>>
    /\ elem' = e
    /\ UNCHANGED <<hashvars, ctlvars>>

\* for name, size, hashes in get_hashes(tf): one element of the data tar
DataElem(e) ==
    /\ pc = "data_iter"
    /\ nelem < MaxEntries
    /\ Read(ElemCode(e))
    /\ nelem' = nelem + 1
    /\ IF ~ e.isreg
       THEN UNCHANGED <<yielded, out, warnings>>
       ELSE IF ~ e.utf8
            THEN warnings' = warnings + 1 /\ UNCHANGED <<yielded, out>>
            ELSE /\ Yield(FileRecord(e.name, Len(e.data), Hashes(e.data)))
                 /\ warnings' = warnings
    /\ UNCHANGED <<pc, state, name, nread, err, sha256hash, residual, data_eof, ar_eof>>
    /\ elem' = e
    /\ UNCHANGED <<hashvars, ctlvars>>

\* the data tar is truncated or does not decompress
DataFails ==
    /\ pc = "data_iter"
    /\ Raise("tar read error")
    /\ UNCHANGED <<state, name, nread, nelem, yielded, out, warnings,
                   sha256hash, digest, inputsha, residual, data_eof, ar_eof>>
    /\ UNCHANGED elem
    /\ UNCHANGED <<hashvars, ctlvars>>

\* A "commit" yielded by process_package reaches the caller at once only
\* when the run is not wrapped (elem == "commit" in the wrapper).
Unwrapped(h) == h = NoHash

DataEnd_released(rest) ==
    /\ pc = "data_iter"
    /\ data_eof' = TRUE
    /\ residual' = rest
    /\ inputsha' = UpdateAll(inputsha, rest)
    /\ yielded' = Append(yielded, CommitRecord)
    /\ out' = Append(out, CommitRecord)
    /\ pc' = IF Unwrapped(sha256hash) THEN "commit" ELSE "drain"
    /\ UNCHANGED <<state, name, nread, nelem, err, warnings, sha256hash,
                   digest, ar_eof>>
    /\ UNCHANGED elem
    /\ UNCHANGED <<hashvars, ctlvars>>

\* The data tar ends: yield "commit".  rest is what the input holds after
\* the data tar.
DataEnd(rest) ==
    /\ pc = "data_iter"
    /\ data_eof' = TRUE
    /\ residual' = rest
    /\ inputsha' = UpdateAll(inputsha, rest)
    /\ yielded' = Append(yielded, CommitRecord)
    /\ IF Unwrapped(sha256hash)
       THEN out' = Append(out, CommitRecord) /\ pc' = "commit"
       ELSE out' = out /\ pc' = "drain"
    /\ UNCHANGED <<state, name, nread, nelem, err, warnings, sha256hash,
                   digest, ar_eof>>
    /\ UNCHANGED elem
    /\ UNCHANGED <<hashvars, ctlvars>>

Break_continue ==
    /\ pc = "commit"
    /\ pc' = "loop"
    /\ UNCHANGED <<state, name, nread, nelem, yielded, out, err, warnings,
                   sha256hash, digest, inputsha, residual, data_eof, ar_eof>>
    /\ UNCHANGED elem
    /\ UNCHANGED <<hashvars, ctlvars>>

\* break, after the "commit" was taken by the caller
Break ==
    /\ pc = "commit"
    /\ pc' = "done"
    /\ UNCHANGED <<state, name, nread, nelem, yielded, out, err, warnings,
                   sha256hash, digest, inputsha, residual, data_eof, ar_eof>>
    /\ UNCHANGED elem
    /\ UNCHANGED <<hashvars, ctlvars>>

\* ------------------------------------------------ process_package_with_hash
Drained_nodrain(rest) == TRUE

\* while hstream.read(4096): pass -- the loop ends when read returns ""
Drained(rest) == rest = <<>>

DrainRead_unhashed ==
    /\ pc = "drain"
    /\ ~ Drained(residual)
    /\ digest' = digest
    /\ residual' = Tail(residual)
    /\ UNCHANGED <<pc, state, name, nread, nelem, yielded, out, err, warnings,
                   sha256hash, inputsha, data_eof, ar_eof>>
    /\ UNCHANGED elem
    /\ UNCHANGED <<hashvars, ctlvars>>

DrainRead ==
    /\ pc = "drain"
    /\ ~ Drained(residual)
    /\ digest' = Update(digest, NameCode(Head(residual)))
    /\ residual' = Tail(residual)
    /\ UNCHANGED <<pc, state, name, nread, nelem, yielded, out, err, warnings,
                   sha256hash, inputsha, data_eof, ar_eof>>
    /\ UNCHANGED elem
    /\ UNCHANGED <<hashvars, ctlvars>>

Mismatch_never(d, h) == FALSE

Mismatch_inverted(d, h) == d = h

\* if hstream.hexdigest() != sha256hash
Mismatch(d, h) == d # h

Compare_silent ==
    /\ pc = "drain"
    /\ Drained(residual)
    /\ IF Mismatch(digest, sha256hash)
       THEN pc' = "done" /\ UNCHANGED <<err, out>>
       ELSE out' = Append(out, CommitRecord) /\ pc' = "verified" /\ err' = err
    /\ UNCHANGED <<state, name, nread, nelem, yielded, warnings, sha256hash,
                   digest, inputsha, residual, data_eof, ar_eof>>
    /\ UNCHANGED elem
    /\ UNCHANGED <<hashvars, ctlvars>>

\* the comparison, then raise or yield elem
Compare ==
    /\ pc = "drain"
    /\ Drained(residual)
    /\ IF Mismatch(digest, sha256hash)
       THEN Raise("hash sum mismatch") /\ out' = out
       ELSE out' = Append(out, CommitRecord) /\ pc' = "verified" /\ err' = err
    /\ UNCHANGED <<state, name, nread, nelem, yielded, warnings, sha256hash,
                   digest, inputsha, residual, data_eof, ar_eof>>
    /\ UNCHANGED elem
    /\ UNCHANGED <<hashvars, ctlvars>>

\* break, after the "commit" was taken by the caller
WrapperBreak ==
    /\ pc = "verified"
    /\ pc' = "done"
    /\ UNCHANGED <<state, name, nread, nelem, yielded, out, err, warnings,
                   sha256hash, digest, inputsha, residual, data_eof, ar_eof>>
    /\ UNCHANGED elem
    /\ UNCHANGED <<hashvars, ctlvars>>

\* ------------------------------------------------- get_hashes, step by step
HashInit ==
    /\ MainIdle
    /\ ControlIdle
    /\ hpc = "next"
    /\ hcount = 0
    /\ helem = NoFile
    /\ hpos = 0
    /\ hblock = <<>>
    /\ hidx = 1
    /\ hnblocks = 0
    /\ hfed = 0
    /\ hashers = NewMultiHash
    /\ hyield = NoYield
    /\ hpoisoned = {}

Poisoned(hs) == { hs[i].name : i \in { j \in DOMAIN hs : hs[j].poisoned } }

HNextElem_shared(e) ==
    /\ hpc \in {"next", "yielded"}
    /\ hcount < MaxFiles
    /\ hcount' = hcount + 1
    /\ helem' = e
    /\ hyield' = NoYield
    /\ hpoisoned' = hpoisoned \cup Poisoned(hashers)
    /\ IF ~ e.isreg
       THEN hpc' = "next"
            /\ UNCHANGED <<hashers, hpos, hfed, hnblocks, hblock, hidx>>
       ELSE /\ hashers' = IF hcount = 0 THEN NewMultiHash
                          ELSE [i \in DOMAIN hashers |->
                                  [hashers[i] EXCEPT !.recv = 0]]
            /\ hpos' = 0
            /\ hfed' = 0
            /\ hnblocks' = 0
            /\ hblock' = <<>>
            /\ hidx' = 1
            /\ hpc' = "read"
    /\ UNCHANGED <<mainvars, ctlvars>>

\* for elem in tar: the next element; a regular one gets a new MultiHash
HNextElem(e) ==
    /\ hpc \in {"next", "yielded"}
    /\ hcount < MaxFiles
    /\ hcount' = hcount + 1
    /\ helem' = e
    /\ hyield' = NoYield
    /\ hpoisoned' = hpoisoned \cup Poisoned(hashers)
    /\ IF ~ e.isreg
       THEN hpc' = "next"
            /\ UNCHANGED <<hashers, hpos, hfed, hnblocks, hblock, hidx>>
       ELSE /\ hashers' = NewMultiHash
            /\ hpos' = 0
            /\ hfed' = 0
            /\ hnblocks' = 0
            /\ hblock' = <<>>
            /\ hidx' = 1
            /\ hpc' = "read"
    /\ UNCHANGED <<mainvars, ctlvars>>

\* the tar has no further element
HEnd ==
    /\ hpc \in {"next", "yielded"}
    /\ hpc' = "stop"
    /\ hpoisoned' = hpoisoned \cup Poisoned(hashers)
    /\ UNCHANGED <<hcount, helem, hpos, hblock, hidx, hnblocks, hfed, hashers,
                   hyield>>
    /\ UNCHANGED <<mainvars, ctlvars>>

\* hash_file: a block b of k bytes is read and passed to hasher.update
HReadBlock(k, b) ==
    /\ hpc = "read"
    /\ hpos + k <= helem.size
    /\ hblock' = b
    /\ helem' = [helem EXCEPT !.data = @ \o b]
    /\ hpos' = hpos + k
    /\ hfed' = hfed + k
    /\ hnblocks' = hnblocks + 1
    /\ hidx' = 1
    /\ hpc' = "update"
    /\ UNCHANGED <<hcount, hashers, hyield, hpoisoned>>
    /\ UNCHANGED <<mainvars, ctlvars>>

\* hash_file: the read returns no data, the file is hashed
HReadEOF ==
    /\ hpc = "read"
    /\ hpos = helem.size
    /\ hpc' = "finish"
    /\ UNCHANGED <<hcount, helem, hpos, hblock, hidx, hnblocks, hfed, hashers,
                   hyield, hpoisoned>>
    /\ UNCHANGED <<mainvars, ctlvars>>

\* MultiHash.update: one turn of the loop, hasher.update(data)
HUpdate ==
    /\ hpc = "update"
    /\ LET h == HasherUpdate(hashers[hidx], hblock)
       IN  /\ hashers' = [hashers EXCEPT ![hidx] = h]
           /\ IF h.st = "raised"
              THEN hpc' = "error" /\ hidx' = hidx
              ELSE IF hidx = Len(hashers)
                   THEN hpc' = "read" /\ hidx' = 1
                   ELSE hpc' = "update" /\ hidx' = hidx + 1
    /\ UNCHANGED <<hcount, helem, hpos, hblock, hnblocks, hfed, hyield,
                   hpoisoned>>
    /\ UNCHANGED <<mainvars, ctlvars>>

HYield_lastblock ==
    /\ hpc = "finish"
    /\ hyield' = [size |-> Len(hblock), hashes |-> Digests(hashers)]
    /\ hpc' = "yielded"
    /\ UNCHANGED <<hcount, helem, hpos, hblock, hidx, hnblocks, hfed, hashers,
                   hpoisoned>>
    /\ UNCHANGED <<mainvars, ctlvars>>

\* the digests are collected: yield (elem.name, elem.size, hashes)
HYield ==
    /\ hpc = "finish"
    /\ hyield' = [size |-> helem.size, hashes |-> Digests(hashers)]
    /\ hpc' = "yielded"
    /\ UNCHANGED <<hcount, helem, hpos, hblock, hidx, hnblocks, hfed, hashers,
                   hpoisoned>>
    /\ UNCHANGED <<mainvars, ctlvars>>

HashNext ==
    \/ \E e \in Files : HNextElem(e)
    \/ HEnd
    \/ \E k \in 1 .. MaxBlock : \E b \in Blocks(k) : HReadBlock(k, b)
    \/ HReadEOF
    \/ HUpdate
    \/ HYield

HashSpec == HashInit /\ [][HashNext]_vars

\* -------------------------------------------------- process_control, alone
DepNames == {"libc6", "awk", "mawk"}

Clauses == UNION { [1 .. k -> DepNames] : k \in 1 .. MaxAlts }

DependsFields == UNION { [1 .. k -> Clauses] : k \in 0 .. MaxClauses }

ControlFieldSets ==
    { {"package", "version", "architecture", "depends"},
      {"package", "architecture", "depends"},
      {"package", "version", "architecture", "source", "depends"} }

ControlInput(f, d) ==
    [fields |-> f,
     source |-> IF "source" \in f THEN <<"src", "(1.0)">> ELSE <<>>,
     depends |-> d]

ControlInit ==
    /\ MainIdle
    /\ HashIdle
    /\ cpc = "call"
    /\ \E f \in ControlFieldSets, d \in DependsFields :
           control = ControlInput(f, d)
    /\ cresult = NoMeta

ParseControl ==
    /\ cpc = "call"
    /\ ~ ControlRaises(control)
    /\ cresult' = process_control(control)
    /\ cpc' = "return"
    /\ UNCHANGED <<control, mainvars, hashvars>>

ParseControlFails ==
    /\ cpc = "call"
    /\ ControlRaises(control)
    /\ cpc' = "error"
    /\ UNCHANGED <<control, cresult, mainvars, hashvars>>

ControlNext ==
    \/ ParseControl
    \/ ParseControlFails

ControlSpec == ControlInit /\ [][ControlNext]_vars

\* ------------------------------------------------------------ specification
Residuals ==
    {<<>>} \cup UNION { [1 .. k -> ArNames] : k \in 1 .. MaxResidual }

Next ==
    \/ ReadMagic
    \/ ReadMagicFails
    \/ \E n \in ArNames : ReadEntry(n)
    \/ ReadEntryEOF
    \/ ReadEntryFails
    \/ OpenControl
    \/ OpenControlFails
    \/ \E e \in ControlElems : ControlElem(e)
    \/ ControlEnd
    \/ ControlFails
    \/ OpenData
    \/ OpenDataFails
    \/ \E e \in DataElems : DataElem(e)
    \/ DataFails
    \/ \E rest \in Residuals : DataEnd(rest)
    \/ Break
    \/ DrainRead
    \/ Compare
    \/ WrapperBreak

Spec == Init /\ [][Next]_vars

\* The caller pulls records until the generator ends (yaml.safe_dump_all),
\* and every read of the finite input returns.
FairSpec == Spec /\ WF_vars(Next)

TypeOK ==
    /\ pc \in {"magic", "loop", "control_open", "control_iter", "data_open",
               "data_iter", "commit", "drain", "verified", "done", "error"}
    /\ state \in {"start", "control", "control_file"}
    /\ nread \in 0 .. MaxMembers
    /\ nelem \in 0 .. MaxEntries
    /\ digest \in 0 .. HashMod - 1
    /\ inputsha \in 0 .. HashMod - 1

\* ------------------------------------------------------------------ claims
Emitted(k) == Count(out, k)

\* C1: a run that completes without raising an error has emitted exactly one
\* PackageMetadata record and exactly one "commit" record, and "commit" is
\* the last record emitted.
C1_OneMetadataOneCommit ==
    pc = "done" =>
        /\ Emitted("metadata") = 1
        /\ Emitted("commit") = 1
        /\ out[Len(out)].kind = "commit"

C1_Witness ==
    /\ pc = "done"
    /\ sha256hash # NoHash
    /\ Emitted("file") = MaxEntries
    /\ nread = MaxMembers

\* C2: "commit" has been emitted only if the data tar was iterated to its
\* end, every FileRecord precedes it, and, when an expected digest was
\* supplied, the accumulated digest equals it.
C2_CommitOnlyWhenConsumedAndVerified ==
    Emitted("commit") > 0 =>
        /\ data_eof
        /\ out[Len(out)].kind = "commit"
        /\ sha256hash # NoHash => digest = sha256hash

C2_Witness ==
    /\ Emitted("commit") > 0
    /\ sha256hash # NoHash
    /\ Emitted("file") > 0
    /\ pc = "verified"

\* C3: a run that has raised an error has emitted no "commit", in every
\* state of the run: 'error raised' and 'commit emitted' exclude each other.
C3_ErrorExcludesCommit ==
    ~ (err # "none" /\ Emitted("commit") > 0)

C3_Witness ==
    /\ err = "hash sum mismatch"
    /\ Count(yielded, "commit") = 1
    /\ Emitted("file") > 0

\* C4: when process_package yields "commit" on the input and the expected
\* digest differs from the digest of the whole input, the wrapped run emits
\* no "commit" and ends by raising "hash sum mismatch".
C4_WrongHashRaises ==
    (sha256hash # NoHash /\ data_eof /\ sha256hash # inputsha) =>
        /\ Emitted("commit") = 0
        /\ pc # "drain" => (pc = "error" /\ err = "hash sum mismatch")

C4_Witness ==
    /\ sha256hash # NoHash
    /\ data_eof
    /\ sha256hash # inputsha
    /\ err = "hash sum mismatch"
    /\ residual = <<>>
    /\ nread < MaxMembers

\* C5: when the expected digest equals the digest of the whole input, the
\* wrapped run ends as process_package does on that input and emits the
\* records process_package yields.
C5_CorrectHashSameAsUnverified ==
    (sha256hash # NoHash /\ pc \in {"done", "error"}
       /\ (data_eof => sha256hash = inputsha)) =>
        /\ out = yielded
        /\ err # "hash sum mismatch"
        /\ pc = "done" <=> Count(yielded, "commit") = 1

C5_Witness ==
    /\ sha256hash # NoHash
    /\ pc = "done"
    /\ sha256hash = inputsha
    /\ out = yielded
    /\ Len(out) > 2

\* C6: no FileRecord is emitted before the PackageMetadata record, also in
\* runs that fail later: a FileRecord is emitted only once ./control was
\* processed and its metadata emitted.
C6_MetadataBeforeFiles ==
    \A i \in DOMAIN out :
        out[i].kind = "file" =>
            /\ state = "control_file"
            /\ \E j \in 1 .. i - 1 : out[j].kind = "metadata"

C6_Witness ==
    /\ Emitted("file") > 0
    /\ err = "tar read error"

\* C7: a data member reached before ./control was processed makes the run
\* fail with "missing control file", with no FileRecord and no commit.
C7_DataBeforeControl ==
    [][(pc = "data_open" /\ state # "control_file") =>
          /\ err' = "missing control file"
          /\ Emitted("file")' = 0
          /\ Emitted("commit")' = 0]_vars

\* C8 as stated: a second control.tar.gz makes the run fail with
\* "duplicate control file".
C8_DuplicateControlFile ==
    [][(nread' = nread + 1 /\ name' = ControlName /\ state # "start") =>
          err' = "duplicate control file"]_vars

\* C8 amended: a control.tar.gz member read after a control.tar.gz member
\* was accepted makes the run fail with "unexpected control.tar.gz".
C8_UnexpectedControl ==
    [][(nread' = nread + 1 /\ name' = ControlName /\ state # "start") =>
          (pc' = "error" /\ err' = "unexpected control.tar.gz")]_vars

C8_Witness ==
    /\ err = "unexpected control.tar.gz"
    /\ state = "control_file"
    /\ Emitted("metadata") = 1

\* C9: when read_entry finds the end of the archive before a data member
\* was streamed, in any state, the run fails with "data.tar not found".
C9_EOFBeforeData ==
    (ar_eof /\ ~ data_eof) =>
        (pc = "error" /\ err = "data.tar not found")

C9_Witness ==
    /\ ar_eof
    /\ state = "control_file"
    /\ err = "data.tar not found"

\* C10: once process_package has yielded "commit" it reads and parses no
\* further ar member: it yields no record and raises no error, and the
\* members that follow the data member stay unread in an unwrapped run.
C10_StopsAfterCommit ==
    [][Count(yielded, "commit") > 0 =>
          /\ yielded' = yielded
          /\ nread' = nread
          /\ nelem' = nelem
          /\ state' = state
          /\ name' = name
          /\ ~ ar_eof'
          /\ err' \in {err, "hash sum mismatch"}
          /\ sha256hash = NoHash => (residual' = residual /\ err' = "none")]_vars

C10_Witness ==
    /\ pc = "done"
    /\ sha256hash = NoHash
    /\ residual = <<ControlName>>

\* C11: an ar member whose name is neither control.tar.gz nor a data.tar
\* name is skipped in every state: the step that reads it leaves the state
\* of the decoder, the records and the outcome as they were.
C11_UnknownMemberSkipped ==
    [][(nread' = nread + 1 /\ name' \notin ({ControlName} \cup DataNames)) =>
          /\ pc' = pc
          /\ state' = state
          /\ yielded' = yielded
          /\ out' = out
          /\ err' = err
          /\ warnings' = warnings
          /\ data_eof' = data_eof
          /\ ar_eof' = ar_eof]_vars

C11_Witness ==
    /\ pc = "loop"
    /\ name = "debian-binary"
    /\ state = "control_file"
    /\ nread = MaxMembers

\* C13: each element the data tar yields appends one FileRecord of its name
\* when it is regular and its name decodes as UTF-8, and nothing otherwise;
\* FileRecords are emitted by no other step, and "commit" follows them all.
C13_FilesInTarOrder ==
    /\ [][(pc = "data_iter" /\ nelem' = nelem + 1) =>
            IF elem'.isreg /\ elem'.utf8
            THEN /\ Len(out') = Len(out) + 1
                 /\ SubSeq(out', 1, Len(out)) = out
                 /\ out'[Len(out')].kind = "file"
                 /\ out'[Len(out')].name = elem'.name
            ELSE out' = out]_vars
    /\ [][Emitted("file")' # Emitted("file") =>
            (pc = "data_iter" /\ nelem' = nelem + 1)]_vars
    /\ [](Emitted("commit") > 0 =>
            \A i \in DOMAIN out : out[i].kind = "file" => i < Len(out))

C13_Witness ==
    /\ Emitted("commit") = 1
    /\ Emitted("file") = 1
    /\ ~ elem.isreg
    /\ elem.name = "./usr"

\* C14: a regular element of the data tar whose name is not UTF-8 emits no
\* record and raises no error: a warning is printed and the iteration of
\* the tar goes on, to the later elements and to "commit".
C14_NonUtf8Skipped ==
    [][(pc = "data_iter" /\ nelem' = nelem + 1
          /\ elem'.isreg /\ ~ elem'.utf8) =>
          /\ out' = out
          /\ yielded' = yielded
          /\ pc' = "data_iter"
          /\ err' = "none"
          /\ warnings' = warnings + 1]_vars

C14_Witness ==
    /\ pc = "done"
    /\ warnings = 1
    /\ Emitted("file") = 1
    /\ Emitted("commit") = 1
    /\ elem.isreg
    /\ elem.utf8

\* C18: in a wrapped run the digest covers the input read so far, and when
\* it is compared it covers the whole input, the members after the data
\* member included: "commit" is released exactly when the expected digest
\* is the digest of the whole input.
C18_DigestCoversInput ==
    sha256hash # NoHash =>
        /\ ~ data_eof => digest = inputsha
        /\ (pc = "drain" /\ residual = <<>>) => digest = inputsha
        /\ pc \in {"verified", "done"} =>
              (digest = inputsha /\ sha256hash = inputsha)
        /\ (data_eof /\ pc = "error") =>
              (digest = inputsha /\ sha256hash # inputsha)

C18_Witness ==
    /\ sha256hash # NoHash
    /\ pc = "verified"
    /\ sha256hash = inputsha
    /\ nread = 2
    /\ Emitted("file") > 0

\* C20: every run ends, either by the end of the generator right after
\* "commit" or by an error; it never ends normally without "commit".
C20_Terminates ==
    /\ <>(pc \in {"done", "error"})
    /\ [](pc = "done" =>
            (err = "none" /\ out # <<>> /\ out[Len(out)].kind = "commit"))
    /\ [](pc = "error" => err # "none")

C20_Witness ==
    /\ pc = "done"
    /\ out # <<>>
    /\ out[Len(out)].kind = "commit"
    /\ nread = MaxMembers
    /\ warnings > 0

\* C12: the hashes mapping of a yielded tuple holds, under none of the four
\* labels, a digest of the blacklist or the digest of a poisoned hasher, and
\* it has no sha512 key for an empty file.
C12_NoBoringNoPoisoned ==
    hpc = "yielded" =>
        /\ \A p \in hyield.hashes : p[2] \notin boring_sha512_hashes
        /\ \A p \in hyield.hashes : p[1] \notin Poisoned(hashers)
        /\ helem.data = <<>> => \A p \in hyield.hashes : p[1] # "sha512"

\* C15: the size of a yielded tuple is the size of the tar header and the
\* number of bytes passed to update of the element's MultiHash.
C15_SizeIsBytesFed ==
    /\ hpc \in {"read", "update", "finish", "yielded"} => hfed = hpos
    /\ hpc = "yielded" =>
          (hyield.size = helem.size /\ hyield.size = hfed)

C15_Witness ==
    /\ hpc = "yielded"
    /\ hyield.size = MaxLen
    /\ hnblocks = 2
    /\ Len(hblock) = 1

\* C16: the depends set is exactly the set of the names of the clauses that
\* have one alternative; clauses with more alternatives contribute nothing.
C16_DependsSingleAlternatives ==
    cpc = "return" =>
        /\ cresult.depends \subseteq DepNames
        /\ \A n \in DepNames :
              n \in cresult.depends <=>
                  \E i \in DOMAIN control.depends : control.depends[i] = <<n>>

C16_Witness ==
    /\ cpc = "return"
    /\ control.depends = << <<"awk", "mawk">>, <<"libc6">> >>
    /\ cresult.depends = {"libc6"}

\* C17: update delivers each block to every hasher, in list order; a hasher
\* that fails on a block is poisoned, no error leaves update, the hashers
\* after it receive that block and the later ones, and the sha512 of the
\* raw bytes is that of all the bytes read.
C17_EveryHasherGetsEveryBlock ==
    /\ hpc # "error"
    /\ hpc = "update" =>
          \A i \in DOMAIN hashers :
              hashers[i].recv = IF i < hidx THEN hnblocks ELSE hnblocks - 1
    /\ hpc \in {"read", "finish", "yielded"} =>
          /\ \A i \in DOMAIN hashers : hashers[i].recv = hnblocks
          /\ hashers[1].acc = SubSeq(helem.data, 1, hpos)
    /\ \A i \in DOMAIN hashers : hashers[i].st # "raised"

C17_Witness ==
    /\ hpc = "update"
    /\ hidx = 3
    /\ hnblocks = 2
    /\ hashers[2].poisoned
    /\ hashers[2].recv = 2
    /\ ~ hashers[3].poisoned

\* C19: every regular element starts with a new MultiHash, and the hashes of
\* its tuple are those of its own bytes hashed from new hashers, whatever
\* the elements before it did to theirs.
C19_FreshHashersPerElement ==
    /\ (hpc = "read" /\ hpos = 0) => hashers = NewMultiHash
    /\ hpc = "yielded" => hyield.hashes = Hashes(helem.data)

C19_Witness ==
    /\ hpc = "yielded"
    /\ hcount = 2
    /\ "gzip_sha512" \in hpoisoned
    /\ \E p \in hyield.hashes : p[1] = "gzip_sha512"

====
